---- MODULE Spec2Model ----
(***************************************************************************)
(* The exam session of src/index.tsx (component App): the lifecycle state  *)
(* appState, the question fetch started by generateExam, the countdown     *)
(* effect with its one-second interval, the navigation and answer          *)
(* handlers, and the score shown on the results screen.                    *)
(*                                                                         *)
(* A state of the model is the component's committed React state plus the  *)
(* three things that live outside it: the fetches that were started and    *)
(* have not resolved yet (pending), whether the interval installed by the  *)
(* countdown effect is still armed (timerId), and whether the countdown    *)
(* effect has to run again because one of its dependencies changed         *)
(* (effectDue).  A click is a discrete event: its render and the effect    *)
(* that follows are part of the same step.  An interval callback and the   *)
(* continuation of a fetch are not: they commit their updates and leave    *)
(* the effect to a later step (RunEffect), and until that step has run     *)
(* its cleanup the interval stays armed.                                   *)
(***************************************************************************)
EXTENDS Integers, Sequences, FiniteSets, TLC

VARIABLES
    appState,               \* 'start' | 'loading' | 'in_progress' | 'results'
    topic,                  \* the selected topic
    examQuestions,          \* sequence of questions
    userAnswers,            \* sequence of answers (Null = not answered)
    currentQuestionIndex,   \* 0-based index, as in the source
    timeLeft,               \* seconds remaining
    timeUp,                 \* the "Time's up!" flag
    isPopupOpen,            \* the curriculum popup is shown
    pending,                \* number of generateContent calls in flight
    timerId,                \* TRUE while an interval of the effect is armed
    effectDue,              \* TRUE while the countdown effect has to re-run
    late,                   \* interval callbacks that ran while effectDue
    ticks,                  \* history: interval callbacks of the current session
    manual,                 \* history: the Submit button was used in the current session
    timerSubmits,           \* history: handleSubmit calls made by the effect in the current session
    before                  \* history: <<the session fields>> as they were when the only
                            \* fetch in flight was requested, << >> otherwise

vars == <<appState, topic, examQuestions, userAnswers, currentQuestionIndex,
          timeLeft, timeUp, isPopupOpen, pending, timerId, effectDue,
          late, ticks, manual, timerSubmits, before>>

----------------------------------------------------------------------------
(* Program constants and model bounds *)

EXAM_DURATION_SECONDS == 300

\* at most this many fetches are in flight at once
MaxPending == 2
\* the interval is followed at most this far below zero
MaxOverrun == 2
\* at most this many interval callbacks run between a commit and the run of
\* the effect that clears and re-installs the interval
MaxLate == 1

Null == "<null>"
Undefined == "<undefined>"

DefaultTopic == "World History"
SelectTopics == {"World History", "Astrophysics"}
CurriculumTopics == {"Bangladesh Primary Level (Classes 1-5)"}

----------------------------------------------------------------------------
(* Questions and the answers of the question source *)

Q(opts, correct) == [options |-> opts, correctAnswer |-> correct]

qParis == Q(<<"Paris", "Rome">>, "Paris")
qMito  == Q(<<"Mitochondria", "Nucleus">>, "Mitochondria")
\* malformed: no options at all
qNoOptions == Q(<< >>, "Paris")
\* malformed: the correct answer is not among the options
qNotListed == Q(<<"Rome">>, "Paris")

\* What a generateContent call can end with: the promise rejects, or it
\* resolves with a text that JSON.parse refuses, or with an object that has
\* no questions field, or with an object holding a questions array.
Outcome(kind, qs) == [kind |-> kind, questions |-> qs]

Outcomes ==
    { Outcome("rejected", << >>),
      Outcome("unparsable", << >>),
      Outcome("no_questions_field", << >>),
      Outcome("parsed", << >>),
      Outcome("parsed", <<qParis, qMito>>),
      Outcome("parsed", <<qNoOptions>>),
      Outcome("parsed", <<qNotListed>>) }

\* the test of line 123: examData.questions && examData.questions.length > 0
HasQuestions(o) == o.kind = "parsed" /\ Len(o.questions) > 0

----------------------------------------------------------------------------
(* The component state as a record, so that handlers compose *)

State ==
    [appState |-> appState, topic |-> topic, examQuestions |-> examQuestions,
     userAnswers |-> userAnswers, currentQuestionIndex |-> currentQuestionIndex,
     timeLeft |-> timeLeft, timeUp |-> timeUp, isPopupOpen |-> isPopupOpen,
     pending |-> pending, timerId |-> timerId, effectDue |-> effectDue,
     late |-> late,
     ticks |-> ticks, manual |-> manual, timerSubmits |-> timerSubmits,
     before |-> before]

Becomes(s) ==
    /\ appState' = s.appState
    /\ topic' = s.topic
    /\ examQuestions' = s.examQuestions
    /\ userAnswers' = s.userAnswers
    /\ currentQuestionIndex' = s.currentQuestionIndex
    /\ timeLeft' = s.timeLeft
    /\ timeUp' = s.timeUp
    /\ isPopupOpen' = s.isPopupOpen
    /\ pending' = s.pending
    /\ timerId' = s.timerId
    /\ effectDue' = s.effectDue
    /\ late' = s.late
    /\ ticks' = s.ticks
    /\ manual' = s.manual
    /\ timerSubmits' = s.timerSubmits
    /\ before' = s.before

Init ==
    /\ appState = "start"
    /\ topic = DefaultTopic
    /\ examQuestions = << >>
    /\ userAnswers = << >>
    /\ currentQuestionIndex = 0
    /\ timeLeft = EXAM_DURATION_SECONDS
    /\ timeUp = FALSE
    /\ isPopupOpen = FALSE
    /\ pending = 0
    /\ timerId = FALSE
    /\ effectDue = FALSE
    /\ late = 0
    /\ ticks = 0
    /\ manual = FALSE
    /\ timerSubmits = 0
    /\ before = << >>

----------------------------------------------------------------------------
(* Handlers *)

\* The history variables describe one session: they start afresh when an
\* exam is requested, when one begins and when the results are left.
NewHistory(s) == [s EXCEPT !.ticks = 0, !.manual = FALSE, !.timerSubmits = 0]

\* the fields of a session
SessionFields(s) ==
    [topic |-> s.topic, examQuestions |-> s.examQuestions,
     userAnswers |-> s.userAnswers,
     currentQuestionIndex |-> s.currentQuestionIndex,
     timeLeft |-> s.timeLeft, timeUp |-> s.timeUp]

\* A request made with no fetch in flight records the session fields it
\* found; with another fetch in flight nothing is recorded, because the
\* fetches may end in either order.  The end of a fetch clears the record.
Remember(s) ==
    [s EXCEPT !.before = IF s.pending = 0 THEN <<SessionFields(s)>> ELSE << >>]
Forget(s) == [s EXCEPT !.before = << >>]

\* handleSubmit testing timeLeft < 0
handleSubmitStrict(s) ==
    [s EXCEPT !.timeUp = IF s.timeLeft < 0 THEN TRUE ELSE @,
              !.appState = "results"]

handleSubmit(s) ==
    [s EXCEPT !.timeUp = IF s.timeLeft <= 0 THEN TRUE ELSE @,
              !.appState = "results"]

\* The body of the countdown effect, preceded by the cleanup of its previous
\* run (clearInterval).
TimerEffect(s) ==
    LET c == [s EXCEPT !.timerId = FALSE, !.effectDue = FALSE, !.late = 0]
    IN  IF c.appState # "in_progress" THEN c
        ELSE IF c.timeLeft = 0
             THEN [handleSubmit(c) EXCEPT !.effectDue = TRUE,
                                          !.timerSubmits = @ + 1]
             ELSE [c EXCEPT !.timerId = TRUE]

\* The effect's dependencies are appState, timeLeft and handleSubmit, and
\* handleSubmit changes with timeLeft.
DepsChanged(old, new) ==
    old.appState # new.appState \/ old.timeLeft # new.timeLeft

\* A commit made outside a discrete event: the effect is left for later.
Deferred(old, new) ==
    [new EXCEPT !.effectDue = old.effectDue \/ DepsChanged(old, new)]

\* A commit made by a click: the effect runs in the same task, and again if
\* it changed its own dependencies.
Settled(old, new) ==
    LET a == Deferred(old, new)
        b == IF a.effectDue THEN TimerEffect(a) ELSE a
    IN  IF b.effectDue THEN TimerEffect(b) ELSE b

\* generateExam up to its await
generateExam(s, examTopic) ==
    [NewHistory(Remember(s)) EXCEPT !.appState = "loading", !.topic = examTopic,
                          !.pending = @ + 1]

\* new Array(n).fill(null)
NullArray(n) == [i \in 1..n |-> Null]

\* generateExam after its await, without line 127
generateExamResumeKeepsTime(s, o) ==
    IF HasQuestions(o)
    THEN [NewHistory(Forget(s)) EXCEPT
                   !.pending = @ - 1,
                   !.examQuestions = o.questions,
                   !.userAnswers = NullArray(Len(o.questions)),
                   !.currentQuestionIndex = 0,
                   !.timeUp = FALSE,
                   !.appState = "in_progress"]
    ELSE [Forget(s) EXCEPT !.pending = @ - 1, !.appState = "start"]

\* generateExam after its await, for what the call ended with
generateExamResume(s, o) ==
    IF HasQuestions(o)
    THEN [NewHistory(Forget(s)) EXCEPT
                   !.pending = @ - 1,
                   !.examQuestions = o.questions,
                   !.userAnswers = NullArray(Len(o.questions)),
                   !.currentQuestionIndex = 0,
                   !.timeLeft = EXAM_DURATION_SECONDS,
                   !.timeUp = FALSE,
                   !.appState = "in_progress"]
    ELSE [Forget(s) EXCEPT !.pending = @ - 1, !.appState = "start"]

handleCurriculumSelect(s, selectedTopic) ==
    generateExam([s EXCEPT !.isPopupOpen = FALSE], selectedTopic)

\* arr[i] = v on a copy of arr (i is 0-based; writing past the end leaves holes)
ArraySet(arr, i, v) ==
    [k \in 1..(IF i + 1 > Len(arr) THEN i + 1 ELSE Len(arr)) |->
        IF k = i + 1 THEN v
        ELSE IF k <= Len(arr) THEN arr[k] ELSE Undefined]

\* handleAnswerSelect starting from an empty copy
handleAnswerSelectFresh(s, answer) ==
    [s EXCEPT !.userAnswers =
        ArraySet(NullArray(Len(s.userAnswers)), s.currentQuestionIndex, answer)]

\* handleAnswerSelect writing one place too far
handleAnswerSelectOneOff(s, answer) ==
    [s EXCEPT !.userAnswers =
        ArraySet(s.userAnswers, s.currentQuestionIndex + 1, answer)]

handleAnswerSelect(s, answer) ==
    [s EXCEPT !.userAnswers = ArraySet(s.userAnswers, s.currentQuestionIndex, answer)]

\* handleNext without its test
handleNextUnchecked(s) ==
    [s EXCEPT !.currentQuestionIndex = @ + 1]

handleNext(s) ==
    IF s.currentQuestionIndex < Len(s.examQuestions) - 1
    THEN [s EXCEPT !.currentQuestionIndex = @ + 1]
    ELSE s

handlePrevious(s) ==
    IF s.currentQuestionIndex > 0
    THEN [s EXCEPT !.currentQuestionIndex = @ - 1]
    ELSE s

handleReset(s) ==
    [NewHistory(s) EXCEPT
              !.appState = "start",
              !.examQuestions = << >>,
              !.userAnswers = << >>,
              !.currentQuestionIndex = 0,
              !.topic = DefaultTopic,
              !.timeUp = FALSE]

\* a score that counts every answered position
RECURSIVE ScoreAnswered(_, _, _)
ScoreAnswered(answers, questions, i) ==
    IF i > Len(answers) THEN 0
    ELSE (IF answers[i] # Null THEN 1 ELSE 0)
         + ScoreAnswered(answers, questions, i + 1)

\* userAnswers.reduce(..., 0), from position i on
RECURSIVE ScoreFrom(_, _, _)
ScoreFrom(answers, questions, i) ==
    IF i > Len(answers) THEN 0
    ELSE (IF answers[i] = questions[i].correctAnswer THEN 1 ELSE 0)
         + ScoreFrom(answers, questions, i + 1)

calculateScore(s) == ScoreFrom(s.userAnswers, s.examQuestions, 1)

----------------------------------------------------------------------------
(* Steps *)

\* the select of the start screen
SelectTopic ==
    /\ appState = "start"
    /\ \E t \in SelectTopics :
          Becomes(Settled(State, [State EXCEPT !.topic = t]))

\* the "Generate Exam" button of the start screen
GenerateClick ==
    /\ appState = "start"
    /\ pending < MaxPending
    /\ Becomes(Settled(State, generateExam(State, topic)))

\* the "View Bangladesh Curriculum" button of the start screen
OpenPopup ==
    /\ appState = "start"
    /\ Becomes(Settled(State, [State EXCEPT !.isPopupOpen = TRUE]))

\* the overlay and the close button of the popup
ClosePopup ==
    /\ isPopupOpen
    /\ Becomes(Settled(State, [State EXCEPT !.isPopupOpen = FALSE]))

\* a level button of the popup, which is rendered whatever appState is
CurriculumClick ==
    /\ isPopupOpen
    /\ pending < MaxPending
    /\ \E t \in CurriculumTopics :
          Becomes(Settled(State, handleCurriculumSelect(State, t)))

\* a generateContent call ends and generateExam resumes
FetchDone ==
    /\ pending > 0
    /\ \E o \in Outcomes :
          Becomes(Deferred(State, generateExamResume(State, o)))

\* option buttons that are rendered on the results screen as well
AnswerClickAnywhere ==
    /\ appState \in {"in_progress", "results"}
    /\ \E k \in 1..Len(examQuestions[currentQuestionIndex + 1].options) :
          Becomes(Settled(State,
              handleAnswerSelect(State, examQuestions[currentQuestionIndex + 1].options[k])))

\* an option button of the current question
AnswerClick ==
    /\ appState = "in_progress"
    /\ \E k \in 1..Len(examQuestions[currentQuestionIndex + 1].options) :
          Becomes(Settled(State,
              handleAnswerSelect(State, examQuestions[currentQuestionIndex + 1].options[k])))

\* handleNext; the Next button is rendered before the last question only,
\* where the handler's own test passes
NextClick ==
    /\ appState = "in_progress"
    /\ Becomes(Settled(State, handleNext(State)))

\* handlePrevious; the Previous button is disabled on the first question
PreviousClick ==
    /\ appState = "in_progress"
    /\ Becomes(Settled(State, handlePrevious(State)))

\* the Submit button, rendered on the last question in place of Next
SubmitClick ==
    /\ appState = "in_progress"
    /\ ~ (currentQuestionIndex < Len(examQuestions) - 1)
    /\ Becomes(Settled(State, [handleSubmit(State) EXCEPT !.manual = TRUE]))

\* the "Take Another Exam" button of the results screen
ResetClick ==
    /\ appState = "results"
    /\ Becomes(Settled(State, handleReset(State)))

\* the interval callback: setTimeLeft(prevTime => prevTime - 1)
Tick ==
    /\ timerId
    /\ timeLeft > - MaxOverrun
    /\ effectDue => late < MaxLate
    /\ Becomes(Deferred(State, [State EXCEPT !.timeLeft = @ - 1, !.ticks = @ + 1,
                                             !.late = IF effectDue THEN @ + 1 ELSE @]))

\* the countdown effect runs for a commit made outside a click
RunEffect ==
    /\ effectDue
    /\ Becomes(TimerEffect(State))

Next ==
    \/ SelectTopic
    \/ GenerateClick
    \/ OpenPopup
    \/ ClosePopup
    \/ CurriculumClick
    \/ FetchDone
    \/ AnswerClick
    \/ NextClick
    \/ PreviousClick
    \/ SubmitClick
    \/ ResetClick
    \/ Tick
    \/ RunEffect

Spec == Init /\ [][Next]_vars

----------------------------------------------------------------------------
(* Steps named by what the program did, for the properties below *)

\* a fetch ended and generateExam took its catch branch
FetchFailed ==
    /\ pending > 0
    /\ \E o \in Outcomes :
          /\ ~ HasQuestions(o)
          /\ Becomes(Deferred(State, generateExamResume(State, o)))

\* a fetch ended and generateExam started the exam
FetchSucceeded ==
    /\ pending > 0
    /\ \E o \in Outcomes :
          /\ HasQuestions(o)
          /\ Becomes(Deferred(State, generateExamResume(State, o)))

\* nothing of the countdown effect is outstanding
Quiet == ~ effectDue

----------------------------------------------------------------------------
(* C1 *)

LegalTransitions ==
    { <<"start", "loading">>, <<"results", "loading">>,
      <<"loading", "in_progress">>, <<"loading", "start">>,
      <<"in_progress", "results">>, <<"results", "start">> }

\* C1: every change of appState is start->loading, results->loading,
\* loading->in_progress, loading->start, in_progress->results or
\* results->start.
C1_OnlyLegalTransitions ==
    [][appState' # appState => <<appState, appState'>> \in LegalTransitions]_vars

----------------------------------------------------------------------------
(* C2 *)

\* C2: at every moment at most one question fetch is in flight; a start
\* request made while loading does not begin another one.
C2_OneFetchInFlight == pending <= 1

----------------------------------------------------------------------------
(* C3 *)

\* C3: a fetch that fails or brings no question takes the session from
\* loading back to start, and does not enter in_progress.
C3_FailureReturnsFromLoading ==
    [][FetchFailed => (appState = "loading" /\ appState' = "start")]_vars

----------------------------------------------------------------------------
(* C4 *)

\* C4: once the 300 interval callbacks of a session have run and the
\* countdown effect has run for them, with the Submit button unused, the
\* session is in results and timeUp is set.
C4_ExpiryFinishes ==
    (ticks = EXAM_DURATION_SECONDS /\ Quiet /\ ~ manual)
        => (appState = "results" /\ timeUp)

----------------------------------------------------------------------------
(* C5 *)

\* C5: the effect submits at most once in a session and only with no time
\* left, and it has submitted exactly once when the session's 300 interval
\* callbacks have run and the effect has run for them, with the Submit
\* button unused.
C5_ExactlyOneTimerSubmit ==
    /\ timerSubmits <= 1
    /\ timerSubmits > 0 => timeLeft <= 0
    /\ (ticks = EXAM_DURATION_SECONDS /\ Quiet /\ ~ manual) => timerSubmits = 1

----------------------------------------------------------------------------
(* C6 *)

\* C6: userAnswers has exactly the length of examQuestions, in every state
\* (so in particular from the entry into in_progress until the reset).
C6_AnswersAlignWithQuestions == Len(userAnswers) = Len(examQuestions)

\* an exam of two questions was answered on its last question and submitted
C6_Witness ==
    /\ appState = "results"
    /\ Len(examQuestions) = 2
    /\ userAnswers[2] # Null
    /\ ticks > 0

----------------------------------------------------------------------------
(* C7 *)

LastIndex == Len(examQuestions) - 1

\* C7: in in_progress currentQuestionIndex is within 0..Len(examQuestions)-1;
\* handleNext leaves it alone on the last question and adds one elsewhere,
\* handlePrevious leaves it alone on the first and subtracts one elsewhere.
C7_IndexStaysInRange ==
    /\ [](appState = "in_progress" => currentQuestionIndex \in 0..LastIndex)
    /\ [][NextClick =>
            currentQuestionIndex' =
                IF currentQuestionIndex = LastIndex THEN currentQuestionIndex
                ELSE currentQuestionIndex + 1]_vars
    /\ [][PreviousClick =>
            currentQuestionIndex' =
                IF currentQuestionIndex = 0 THEN currentQuestionIndex
                ELSE currentQuestionIndex - 1]_vars

\* the last of several questions is shown, where handleNext has nowhere to go
C7_Witness ==
    /\ appState = "in_progress"
    /\ currentQuestionIndex = LastIndex
    /\ currentQuestionIndex > 0

----------------------------------------------------------------------------
(* C8 *)

\* the positions answered with exactly the correct answer
CorrectPositions(answers, questions) ==
    { i \in 1..Len(questions) :
        answers[i] # Null /\ answers[i] = questions[i].correctAnswer }

\* largest exam of the scorer's check below
MaxScored == 3

qMars == Q(<<"Mars", "Venus">>, "Mars")
ScoredQuestions == {qParis, qMars, qMito}
ScoredAnswers == {Null, "Paris", "Mars", "Mitochondria", "Nucleus", "paris"}

SeqsOf(S, n) == [1..n -> S]

ScoreAgrees(answers, questions) ==
    LET n == ScoreFrom(answers, questions, 1)
    IN  /\ n = Cardinality(CorrectPositions(answers, questions))
        /\ n \in 0..Len(questions)
        /\ (\A i \in 1..Len(answers) : answers[i] = Null) => n = 0
        /\ (\A i \in 1..Len(answers) : answers[i] = questions[i].correctAnswer)
              => n = Len(questions)

\* the scorer on every exam of up to MaxScored questions and every way of
\* answering it, and on the example of the specification
ScorerTable ==
    /\ \A n \in 0..MaxScored :
         \A questions \in SeqsOf(ScoredQuestions, n) :
           \A answers \in SeqsOf(ScoredAnswers, n) :
              ScoreAgrees(answers, questions)
    /\ ScoreFrom(<<"Paris", "Mars", "Nucleus">>, <<qParis, qMars, qMito>>, 1) = 2

\* C8: the score of the results screen is the number of positions whose
\* answer is set and is exactly the correct answer; it lies in
\* 0..Len(examQuestions), is 0 with nothing answered and Len(examQuestions)
\* with everything right; Paris, Mars, Nucleus against Paris, Mars,
\* Mitochondria scores 2.
C8_ScoreCountsExactMatches ==
    /\ ScorerTable
    /\ appState = "results" =>
          /\ Len(userAnswers) = Len(examQuestions)
          /\ calculateScore(State)
                = Cardinality(CorrectPositions(userAnswers, examQuestions))
          /\ ScoreAgrees(userAnswers, examQuestions)

\* results of an exam with one answer right and one answer wrong
C8_Witness ==
    /\ appState = "results"
    /\ examQuestions = <<qParis, qMito>>
    /\ userAnswers = <<"Paris", "Nucleus">>
    /\ calculateScore(State) = 1

----------------------------------------------------------------------------
(* C9 *)

WellFormed(q) ==
    /\ Len(q.options) > 0
    /\ \E k \in 1..Len(q.options) : q.options[k] = q.correctAnswer

\* C9: no exam is ever in progress with a question whose option list is
\* empty or lacks its correct answer (a fetch that brings such a question is
\* treated as a failure).
C9_MalformedQuestionsRejected ==
    appState = "in_progress" =>
        \A i \in 1..Len(examQuestions) : WellFormed(examQuestions[i])

----------------------------------------------------------------------------
(* C10 *)

\* C10: the reset is taken in results only, and leaves start with no
\* questions, no answers, index 0, timeUp unset and timeLeft back at 300.
C10_ResetClearsSession ==
    [][ResetClick =>
          /\ appState = "results"
          /\ appState' = "start"
          /\ examQuestions' = << >>
          /\ userAnswers' = << >>
          /\ currentQuestionIndex' = 0
          /\ timeUp' = FALSE
          /\ timeLeft' = EXAM_DURATION_SECONDS]_vars

----------------------------------------------------------------------------
(* C11 *)

AllUnset(answers) == \A i \in 1..Len(answers) : answers[i] = Null

\* C11: every step that enters in_progress leaves every answer unset,
\* the index at 0, timeLeft at 300 and timeUp unset, whatever session came
\* before.
C11_FreshOnEntry ==
    [][(appState # "in_progress" /\ appState' = "in_progress") =>
          /\ AllUnset(userAnswers')
          /\ Len(userAnswers') = Len(examQuestions')
          /\ currentQuestionIndex' = 0
          /\ timeLeft' = EXAM_DURATION_SECONDS
          /\ timeUp' = FALSE]_vars

\* an exam has just begun and its countdown effect has not run yet
C11_Witness ==
    /\ appState = "in_progress"
    /\ effectDue /\ ~ timerId
    /\ ticks = 0
    /\ Len(examQuestions) = 2
    /\ timeLeft = EXAM_DURATION_SECONDS

----------------------------------------------------------------------------
(* C12 *)

\* C12: when the only fetch in flight fails, the session is in start and
\* its topic, questions, answers, index, timeLeft and timeUp are what they
\* were when that fetch was requested.
C12_FailureRetainsNothing ==
    [][(FetchFailed /\ before # << >>) =>
          /\ appState' = "start"
          /\ SessionFields([topic |-> topic', examQuestions |-> examQuestions',
                            userAnswers |-> userAnswers',
                            currentQuestionIndex |-> currentQuestionIndex',
                            timeLeft |-> timeLeft', timeUp |-> timeUp'])
               = before[1]]_vars

----------------------------------------------------------------------------
(* C13 *)

\* C13: no step that begins and ends in in_progress increases timeLeft,
\* whether it is a tick, a click or the end of a fetch.
C13_TimeNeverIncreases ==
    [][(appState = "in_progress" /\ appState' = "in_progress")
          => timeLeft' <= timeLeft]_vars

----------------------------------------------------------------------------
(* C14 *)

\* C14: the interval callback runs in in_progress only: no tick changes
\* timeLeft in start, loading or results.
C14_TicksOnlyInProgress ==
    [][Tick => appState = "in_progress"]_vars

----------------------------------------------------------------------------
(* C15 *)

\* C15: timeLeft is never negative.
C15_TimeNeverNegative == timeLeft >= 0

----------------------------------------------------------------------------
(* C16 *)

InSession == appState \in {"in_progress", "results"}

\* C16: from the entry into in_progress until the reset, no step changes
\* examQuestions.
C16_QuestionsFixed ==
    [][(InSession /\ ~ ResetClick) => examQuestions' = examQuestions]_vars

----------------------------------------------------------------------------
(* C17 *)

----------------------------------------------------------------------------
(* C18 *)

CurrentOptions ==
    { examQuestions[currentQuestionIndex + 1].options[k] :
        k \in 1..Len(examQuestions[currentQuestionIndex + 1].options) }

\* what handleAnswerSelect does in the current state, for every option shown
SelectSetsOneEntry ==
    \A a \in CurrentOptions :
        LET s1 == handleAnswerSelect(State, a)
        IN  /\ s1 = [State EXCEPT !.userAnswers[currentQuestionIndex + 1] = a]
            /\ handleAnswerSelect(s1, a) = s1
            /\ \A b \in CurrentOptions :
                  handleAnswerSelect(s1, b)
                    = [State EXCEPT !.userAnswers[currentQuestionIndex + 1] = b]

\* C18: in in_progress handleAnswerSelect(text) sets the entry of the
\* current question to text and changes nothing else; selecting again
\* overwrites the entry and selecting the same text twice is selecting it
\* once.  A click on an option leaves the other answers, the index, the
\* questions and timeLeft as they were.
C18_SelectChangesOneAnswer ==
    /\ [](appState = "in_progress" => SelectSetsOneEntry)
    /\ [][AnswerClick =>
            /\ userAnswers'[currentQuestionIndex + 1] \in CurrentOptions
            /\ \A i \in 1..Len(userAnswers) :
                  i # currentQuestionIndex + 1 => userAnswers'[i] = userAnswers[i]
            /\ Len(userAnswers') = Len(userAnswers)
            /\ currentQuestionIndex' = currentQuestionIndex
            /\ examQuestions' = examQuestions
            /\ timeLeft' = timeLeft]_vars

\* both questions are answered and the second one is shown
C18_Witness ==
    /\ appState = "in_progress"
    /\ userAnswers = <<"Paris", "Nucleus">>
    /\ currentQuestionIndex = 1
    /\ ticks > 0

----------------------------------------------------------------------------
(* C19 *)

\* C19: on the results screen timeUp is set exactly when no time was left
\* at the submit: a submit with time left shows no flag, and the flag of an
\* earlier session is not shown by a later one.
C19_TimeUpIffExpired ==
    appState = "results" => (timeUp <=> timeLeft <= 0)

\* the countdown itself ended the exam
C19_Witness ==
    /\ appState = "results"
    /\ timeUp /\ timeLeft = 0
    /\ timerSubmits = 1 /\ ~ manual

----------------------------------------------------------------------------
(* C20 *)

\* The interval callback once the countdown is MaxOverrun below zero: the
\* value -MaxOverrun stands for every value at or below it (the code only
\* compares timeLeft with 0), the commit changes timeLeft and so makes the
\* countdown effect due again.
TickBelow ==
    /\ timerId
    /\ timeLeft = - MaxOverrun
    /\ effectDue => late < MaxLate
    /\ Becomes([State EXCEPT !.effectDue = TRUE,
                             !.late = IF effectDue THEN @ + 1 ELSE @])

\* The exam started from the start screen by one request at a time, with
\* the two things the runtime guarantees: an armed interval keeps calling
\* back, and an effect that is due is run.
LiveNext ==
    \/ GenerateClick
    \/ FetchDone
    \/ AnswerClick
    \/ NextClick
    \/ PreviousClick
    \/ SubmitClick
    \/ ResetClick
    \/ Tick
    \/ TickBelow
    \/ RunEffect

LiveSpec ==
    Init /\ [][LiveNext]_vars
         /\ WF_vars(Tick) /\ WF_vars(TickBelow) /\ WF_vars(RunEffect)

\* C20: every session that is in_progress reaches results.
C20_SessionEnds == (appState = "in_progress") ~> (appState = "results")

====
